---- MODULE Spec2Model ----
(***************************************************************************)
(* Base Bonsai (src/src/App.tsx): the game-state machine of the App        *)
(* component (connect, account load, plant, water, revive, graft, with the *)
(* asynchronous sendGameTx between an action's validation and its commit), *)
(* the localStorage record of the account, and the pure helpers they use.  *)
(*                                                                         *)
(* Time is Date.now() in milliseconds.  Strings that the code inspects     *)
(* character by character are sequences of one-character strings.  An      *)
(* optional field (undefined in the code) is the empty sequence, a present *)
(* one is a one-element sequence.                                          *)
(***************************************************************************)
EXTENDS Integers, Sequences, FiniteSets, Bags, TLC

VARIABLES
    now,            \* Date.now()
    account,        \* useState account: "" until connected
    local,          \* useState local: the in-memory LocalState
    stored,         \* localStorage item at lsKey(account)
    friendHue,      \* useState friendHue: accent hue, optional
    inflight,       \* bag of the handlers suspended at `await sendGameTx(..)`, with their closure
    ev,             \* the last step taken (observation only)
    tipState,       \* useState tipState
    tips,           \* bag of the sendTip runs suspended at an await
    sent,           \* the calldata of the tip calls submitted to the wallet
    arg,            \* the argument of the helper evaluated on its own
    out             \* what it returned, once it has

vars == <<now, account, local, stored, friendHue, inflight, ev, tipState, tips, sent, arg, out>>

game == <<now, account, local, stored, friendHue, inflight, ev>>
tip == <<tipState, tips, sent>>

----------------------------------------------------------------------------
(* Bounds of the model *)

MaxDays == 3        \* the last instant observed, in days after the page first opens
MaxInflight == 2    \* handlers suspended at once
MaxElapsedDays == 40    \* whole days elapsed, either way, for which the clamp is evaluated

----------------------------------------------------------------------------
(* Time *)

MsPerHour == 3600000
MsPerDay == 86400000
HalfHour == MsPerHour \div 2
Epoch == 4 * MsPerDay

\* The instants at which the model observes the program.
\* The page opens at Epoch; the program is observed then, half an hour and an
\* hour later (inside and at the end of the watering cooldown), and days later.
Clock == { Epoch, Epoch + HalfHour, Epoch + MsPerHour, Epoch + MaxDays * MsPerDay }

----------------------------------------------------------------------------
(* Optional values *)

None == <<>>
Some(v) == <<v>>

\* JavaScript truthiness of an optional number: undefined and 0 are falsy.
Truthy(o) == o # None /\ o[1] # 0

clamp(n, a, b) ==
    LET m == IF b < n THEN b ELSE n
    IN  IF a > m THEN a ELSE m

----------------------------------------------------------------------------
(* Local persistence *)

ZeroState ==
    [plantedAt |-> None, growth |-> 0, lastWateredAt |-> None,
     missedStreak |-> 0, revivedAt |-> None, lastGraftedAt |-> None]

\* A JSON member as typeof sees it: a number, some other type, or missing.
JNum(v) == <<"num", v>>
JOther == <<"other", 0>>
JMissing == <<"missing", 0>>

ZeroJson ==
    [plantedAt |-> JMissing, growth |-> JMissing, lastWateredAt |-> JMissing,
     missedStreak |-> JMissing, revivedAt |-> JMissing, lastGraftedAt |-> JMissing]

Absent == [kind |-> "absent", j |-> ZeroJson]
Corrupt == [kind |-> "corrupt", j |-> ZeroJson]
\* A text JSON.parse throws on, in which the members j can still be made out
\* (a truncated record, say).
Truncated(j) == [kind |-> "corrupt", j |-> j]
Obj(j) == [kind |-> "obj", j |-> j]

OptNumber(m) == IF m[1] = "num" THEN Some(m[2]) ELSE None
NumberOr0(m) == IF m[1] = "num" THEN m[2] ELSE 0

\* loadState reading the members whatever JSON.parse does
loadStateLenient(raw) ==
    [plantedAt     |-> OptNumber(raw.j.plantedAt),
     growth        |-> NumberOr0(raw.j.growth),
     lastWateredAt |-> OptNumber(raw.j.lastWateredAt),
     missedStreak  |-> NumberOr0(raw.j.missedStreak),
     revivedAt     |-> OptNumber(raw.j.revivedAt),
     lastGraftedAt |-> OptNumber(raw.j.lastGraftedAt)]

loadState(raw) ==
    IF raw.kind = "absent" THEN ZeroState
    ELSE IF raw.kind = "corrupt" THEN ZeroState
    ELSE [plantedAt     |-> OptNumber(raw.j.plantedAt),
          growth        |-> NumberOr0(raw.j.growth),
          lastWateredAt |-> OptNumber(raw.j.lastWateredAt),
          missedStreak  |-> NumberOr0(raw.j.missedStreak),
          revivedAt     |-> OptNumber(raw.j.revivedAt),
          lastGraftedAt |-> OptNumber(raw.j.lastGraftedAt)]

ToJson(o) == IF o = None THEN JMissing ELSE JNum(o[1])

saveState(st) ==
    Obj([plantedAt     |-> ToJson(st.plantedAt),
         growth        |-> JNum(st.growth),
         lastWateredAt |-> ToJson(st.lastWateredAt),
         missedStreak  |-> JNum(st.missedStreak),
         revivedAt     |-> ToJson(st.revivedAt),
         lastGraftedAt |-> ToJson(st.lastGraftedAt)])

----------------------------------------------------------------------------
(* Growth model *)

\* canWater without the cooldown
canWaterAlways(st, t) == TRUE

\* hoursSince(ts) >= 1, with hoursSince = Infinity for a falsy ts
canWater(st, t) ==
    \/ ~Truthy(st.lastWateredAt)
    \/ t - st.lastWateredAt[1] >= MsPerHour

\* computeMissedStreak without its clamp
computeMissedStreakUnclamped(st, t) ==
    IF ~Truthy(st.lastWateredAt) THEN 0
    ELSE (t - st.lastWateredAt[1]) \div MsPerDay

computeMissedStreak(st, t) ==
    IF ~Truthy(st.lastWateredAt) THEN 0
    ELSE clamp((t - st.lastWateredAt[1]) \div MsPerDay, 0, 30)

\* health without the last step
computeHealthTired(st) ==
    IF st.missedStreak <= 0 THEN 100
    ELSE IF st.missedStreak = 1 THEN 86
    ELSE 68

\* computeHealth(st), in hundredths
computeHealth(st) ==
    IF st.missedStreak <= 0 THEN 100
    ELSE IF st.missedStreak = 1 THEN 86
    ELSE IF st.missedStreak = 2 THEN 68
    ELSE 42

planted(st) == Truthy(st.plantedAt)

withered(st) == st.missedStreak >= 3

----------------------------------------------------------------------------
(* Strings *)

Rep(c, n) == [i \in 1..n |-> c]

HexChars ==
    {"0","1","2","3","4","5","6","7","8","9",
     "a","b","c","d","e","f","A","B","C","D","E","F"}

HexVal(c) ==
    CASE c = "0" -> 0 [] c = "1" -> 1 [] c = "2" -> 2 [] c = "3" -> 3
      [] c = "4" -> 4 [] c = "5" -> 5 [] c = "6" -> 6 [] c = "7" -> 7
      [] c = "8" -> 8 [] c = "9" -> 9
      [] c \in {"a","A"} -> 10 [] c \in {"b","B"} -> 11
      [] c \in {"c","C"} -> 12 [] c \in {"d","D"} -> 13
      [] c \in {"e","E"} -> 14 [] c \in {"f","F"} -> 15

Slice(s, from, to) ==
    IF from > to THEN <<>> ELSE SubSeq(s, from, IF to > Len(s) THEN Len(s) ELSE to)

startsWith0x(s) == Len(s) >= 2 /\ s[1] = "0" /\ s[2] = "x"

strip0x(s) == IF startsWith0x(s) THEN Slice(s, 3, Len(s)) ELSE s

RECURSIVE TrimStart(_)
TrimStart(s) == IF s # <<>> /\ Head(s) = " " THEN TrimStart(Tail(s)) ELSE s

RECURSIVE TrimEnd(_)
TrimEnd(s) ==
    IF s # <<>> /\ s[Len(s)] = " " THEN TrimEnd(SubSeq(s, 1, Len(s) - 1)) ELSE s

trim(s) == TrimEnd(TrimStart(s))

\* /^0x[a-fA-F0-9]{40}$/
isLikelyAddress(addr) ==
    /\ Len(addr) = 42
    /\ startsWith0x(addr)
    /\ \A i \in 3..42 : addr[i] \in HexChars

----------------------------------------------------------------------------
(* Calldata encoders *)

\* String.padEnd and String.padStart: a string already long enough is returned
\* as it is, never cut.
padEnd(s, n, c) == IF Len(s) >= n THEN s ELSE s \o Rep(c, n - Len(s))
padStart(s, n, c) == IF Len(s) >= n THEN s ELSE Rep(c, n - Len(s)) \o s

LowerHexDigits == <<"0","1","2","3","4","5","6","7","8","9","a","b","c","d","e","f">>

\* Number.prototype.toString(16) of a non-negative integer
RECURSIVE toString16(_)
toString16(n) ==
    IF n < 16 THEN <<LowerHexDigits[n + 1]>>
    ELSE toString16(n \div 16) \o <<LowerHexDigits[(n % 16) + 1]>>

\* TextEncoder.encode of one character: its UTF-8 bytes
Utf8(c) ==
    CASE c = "a" -> <<97>>  [] c = "e" -> <<101>> [] c = "f" -> <<102>>
      [] c = "g" -> <<103>> [] c = "i" -> <<105>> [] c = "l" -> <<108>>
      [] c = "n" -> <<110>> [] c = "p" -> <<112>> [] c = "r" -> <<114>>
      [] c = "t" -> <<116>> [] c = "v" -> <<118>> [] c = "w" -> <<119>>
      [] c = "é" -> <<195, 169>>

RECURSIVE utf8Bytes(_)
utf8Bytes(str) == IF str = <<>> THEN <<>> ELSE Utf8(Head(str)) \o utf8Bytes(Tail(str))

RECURSIVE bytesToHex(_)
bytesToHex(bytes) ==
    IF bytes = <<>> THEN <<>>
    ELSE padStart(toString16(Head(bytes)), 2, "0") \o bytesToHex(Tail(bytes))

utf8ToHex(str) == <<"0", "x">> \o bytesToHex(utf8Bytes(str))

padRightTo32Bytes(hexNoPrefix) == padEnd(hexNoPrefix, 64, "0")
padLeftTo32Bytes(hexNoPrefix) == padStart(hexNoPrefix, 64, "0")

\* What an encoder call does: it throws, or returns a hex string.
Threw == [threw |-> TRUE, hex |-> <<>>]
Returns(hex) == [threw |-> FALSE, hex |-> hex]

\* the payload without its padding
paddedDataUnpadded(data) == data

\* data.padEnd(Math.ceil(dataLen / 32) * 64, "0"), with dataLen = data.length / 2
paddedData(data) == padEnd(data, (((Len(data) \div 2) + 31) \div 32) * 64, "0")

encodeLogAction(action, dataHex) ==
    LET selector   == <<"2","d","9","b","c","1","f","b">>
        actionHex  == strip0x(utf8ToHex(action))
        actionWord == padRightTo32Bytes(actionHex)
        offsetWord == padLeftTo32Bytes(<<"4", "0">>)
        data       == strip0x(IF dataHex = <<>> THEN <<"0", "x">> ELSE dataHex)
        dataLen    == Len(data) \div 2
        lenWord    == padLeftTo32Bytes(toString16(dataLen))
    IN  IF Len(data) % 2 # 0 THEN Threw
        ELSE Returns(<<"0", "x">> \o selector \o actionWord \o offsetWord \o lenWord
                       \o paddedData(data))

\* A bigint: its sign and the hex digits of its magnitude, without leading
\* zeros ("0" for zero).
BigIntOf(n) == [neg |-> n < 0, mag |-> toString16(IF n < 0 THEN 0 - n ELSE n)]

\* amountBaseUnits <= 0n
NotPositive(big) == big.neg \/ big.mag = <<"0">>

\* BigInt.prototype.toString(16)
bigToString16(big) == IF big.neg THEN <<"-">> \o big.mag ELSE big.mag

toLowerCaseChar(c) ==
    CASE c = "A" -> "a" [] c = "B" -> "b" [] c = "C" -> "c" [] c = "D" -> "d"
      [] c = "E" -> "e" [] c = "F" -> "f" [] c = "X" -> "x" [] OTHER -> c

toLowerCase(str) == [i \in 1..Len(str) |-> toLowerCaseChar(str[i])]

\* bytes32Pad padding on the right
bytes32PadEnd(hexNo0x) == padEnd(hexNo0x, 64, "0")

bytes32Pad(hexNo0x) == padStart(hexNo0x, 64, "0")

\* encodeUsdcTransfer without its check of the amount
encodeUsdcTransferAnyAmount(to, amountBaseUnits) ==
    IF ~isLikelyAddress(to) THEN Threw
    ELSE Returns(<<"0", "x">> \o <<"a","9","0","5","9","c","b","b">>
                   \o bytes32Pad(strip0x(toLowerCase(to)))
                   \o bytes32Pad(bigToString16(amountBaseUnits)))

encodeUsdcTransfer(to, amountBaseUnits) ==
    LET selector  == <<"a","9","0","5","9","c","b","b">>
        toNo0x    == strip0x(toLowerCase(to))
        toPadded  == bytes32Pad(toNo0x)
        amtHex    == bigToString16(amountBaseUnits)
        amtPadded == bytes32Pad(amtHex)
    IN  IF ~isLikelyAddress(to) THEN Threw
        ELSE IF NotPositive(amountBaseUnits) THEN Threw
        ELSE Returns(<<"0", "x">> \o selector \o toPadded \o amtPadded)

----------------------------------------------------------------------------
(* Seed derivation *)

Million == 1000000

\* The leading hex digits of s, as parseInt reads them.
RECURSIVE HexPrefix(_)
HexPrefix(s) ==
    IF s # <<>> /\ Head(s) \in HexChars THEN <<Head(s)>> \o HexPrefix(Tail(s)) ELSE <<>>

\* The value of a run of hex digits modulo one million.  The code takes the
\* remainder of the whole number; at most 12 digits are read, so the number is
\* below 2^48, exact in a double, and the remainder taken digit by digit is
\* the same number.
RECURSIVE HexMod(_, _)
HexMod(digits, acc) ==
    IF digits = <<>> THEN acc
    ELSE HexMod(Tail(digits), (acc * 16 + HexVal(Head(digits))) % Million)

\* parseInt(s, 16) % 1000000: leading white space, a sign and a 0x prefix are
\* skipped, the digits up to the first other character are read; with no
\* digit the result is NaN.  JavaScript's % keeps the sign of the dividend.
parseInt16Mod(s) ==
    LET t      == TrimStart(s)
        neg    == t # <<>> /\ Head(t) = "-"
        u      == IF t # <<>> /\ Head(t) \in {"-", "+"} THEN Tail(t) ELSE t
        v      == IF Len(u) >= 2 /\ u[1] = "0" /\ u[2] \in {"x", "X"} THEN Slice(u, 3, Len(u)) ELSE u
        digits == HexPrefix(v)
        m      == HexMod(digits, 0)
    IN  [nan |-> digits = <<>>, num |-> IF neg THEN 0 - m ELSE m]

\* hashToUnitFloat(hex), as a number of millionths (nan: the result is NaN)
hashToUnitFloat(hex) ==
    LET clean == strip0x(hex)
        chunk == Slice(clean, 1, 12)
    IN  parseInt16Mod(IF chunk = <<>> THEN <<"0">> ELSE chunk)

\* Math.floor(x * 360) for x = m / 1000000 in double arithmetic, 0 <= m < 1000000.
\* The product is rounded below the exact integer for four values of m.
FloorTimes360(m) ==
    IF m \in {175000, 350000, 575000, 700000}
    THEN (m * 360) \div Million - 1
    ELSE (m * 360) \div Million

hueOf(addr) == FloorTimes360(hashToUnitFloat(addr).num)

----------------------------------------------------------------------------
(* The seeded generator.  A 32-bit word is the pair of its 16-bit halves. *)

Half == 65536

Word(hi, lo) == <<hi, lo>>

\* x ^ y and x | y on n-bit numbers
RECURSIVE BitXor(_, _, _)
BitXor(x, y, n) ==
    IF n = 0 THEN 0
    ELSE ((x + y) % 2) + 2 * BitXor(x \div 2, y \div 2, n - 1)

RECURSIVE BitOr(_, _, _)
BitOr(x, y, n) ==
    IF n = 0 THEN 0
    ELSE (IF x % 2 = 1 \/ y % 2 = 1 THEN 1 ELSE 0) + 2 * BitOr(x \div 2, y \div 2, n - 1)

\* x ^ y for x, y below 16, tabulated
XorOfDigits == [x \in 0..15 |-> [y \in 0..15 |-> BitXor(x, y, 4)]]

\* x ^ y for x, y below 2^16, one hex digit at a time
Xor16(x, y) ==
    XorOfDigits[x % 16][y % 16]
      + 16 * XorOfDigits[(x \div 16) % 16][(y \div 16) % 16]
      + 256 * XorOfDigits[(x \div 256) % 16][(y \div 256) % 16]
      + 4096 * XorOfDigits[x \div 4096][y \div 4096]

Xor32(a, b) == Word(Xor16(a[1], b[1]), Xor16(a[2], b[2]))

\* a | k for a constant k below 2^8
Or32(a, k) == Word(a[1], (a[2] \div 256) * 256 + BitOr(a[2] % 256, k, 8))

\* (a + b) mod 2^32
Add32(a, b) ==
    LET lo == a[2] + b[2]
    IN  Word((a[1] + b[1] + lo \div Half) % Half, lo % Half)

\* 2^k
RECURSIVE TwoTo(_)
TwoTo(k) == IF k = 0 THEN 1 ELSE 2 * TwoTo(k - 1)

PowersOf2 == [k \in 0..25 |-> TwoTo(k)]

Pow2(k) == PowersOf2[k]

\* a >>> k, for 0 < k <= 16
Shr32(a, k) ==
    LET v == a[1] * Pow2(16 - k) + a[2] \div Pow2(k)
    IN  Word(v \div Half, v % Half)

\* x * y for 16-bit x and y, as a 32-bit word
Mul16(x, y) ==
    LET p0  == (x % 256) * y
        p1  == (x \div 256) * y
        mid == (p1 % 256) * 256 + p0
    IN  Word((p1 \div 256 + mid \div Half) % Half, mid % Half)

\* Math.imul: the low 32 bits of a * b
imul(a, b) ==
    LET low   == Mul16(a[2], b[2])
        cross == (Mul16(a[1], b[2])[2] + Mul16(a[2], b[1])[2]) % Half
    IN  Word((low[1] + cross) % Half, low[2])

\* 0x6d2b79f5
Increment == Word(27947, 31221)

\* t ^= t + Math.imul(t ^ (t >>> 7), t | 61); the word is t ^ (t >>> 14)
Scrambled(t) == Xor32(t, Shr32(t, 14))

Mixed(t) == Scrambled(Xor32(t, Add32(t, imul(Xor32(t, Shr32(t, 7)), Or32(t, 61)))))

\* t = Math.imul(t ^ (t >>> 15), t | 1) for t = a after the increment
Drawn(a) == [a |-> a, word |-> Mixed(imul(Xor32(a, Shr32(a, 15)), Or32(a, 1)))]

\* One call of the function mulberry32(a) returns, from the generator's state
\* before the call: the state after it (a += 0x6d2b79f5, kept modulo 2^32) and
\* the 32-bit word that the call divides by 4294967296.
mulberry32(a) == Drawn(Add32(a, Increment))

\* Math.floor(r * d) for r = word / 2^32 and a whole d below 2^15
FloorTimes(word, d) == (word[1] * d + (word[2] * d) \div Half) \div Half

\* r < t / 10000 for r = word / 2^32
Below(word, t) == FloorTimes(word, 10000) < t

\* floor(x * 2^k / 15625) for 0 <= x < 15625
RECURSIVE ScaleUp(_, _, _)
ScaleUp(rem, quot, k) ==
    IF k = 0 THEN quot
    ELSE ScaleUp((2 * rem) % 15625, 2 * quot + (2 * rem) \div 15625, k - 1)

\* Math.floor(seedUnit * 2 ** 31) for seedUnit = m / 1000000, as a word:
\* m * 2^25 / 15625, whole part by whole part.
seedWord(m) ==
    LET v == (m \div 15625) * Pow2(25) + ScaleUp(m % 15625, 0, 25)
    IN  Word(v \div Half, v % Half)

----------------------------------------------------------------------------
(* The renderer: what renderBonsai draws from the seeded generator.          *)
(* activity and breeze are in thousandths, thresholds in ten-thousandths.    *)
(* A pass is the generator (a: its state, r: the word last drawn, draws: the *)
(* number of calls), the branch topology so far (the sequence of branch      *)
(* calls with their depth, leaf and bloom counts, split and side-branch      *)
(* decisions) and the horizontal shift that the sway gives to the end point  *)
(* of every stroke, in units of 0.02 / maxDepth / 1000 of the bend factor.   *)

\* the depth without the clamp
maxDepthUnclamped(p) == 3 + (2 * p.growth) \div 3

\* clamp(3 + Math.floor(p.growth / 1.5), 3, 10)
maxDepth(p) == clamp(3 + (2 * p.growth) \div 3, 3, 10)

\* leafiness computed from the breeze
leafinessOfBreeze(p) == clamp(1000 + 9 * p.breeze, 0, 10000)

\* clamp(0.1 + p.activity * 0.9, 0, 1)
leafiness(p) == clamp(1000 + 9 * p.activity, 0, 10000)

\* clamp(0.04 + p.activity * 0.18, 0.04, 0.25)
bloomChance(p) == clamp(400 + (18 * p.activity) \div 10, 400, 2500)

\* (p.breeze - 0.5) * 22, in units of 0.022
sway(p) == p.breeze - 500

\* The statements of the code run in order: what comes next starts from a
\* pass that has been computed.
Computed(pass) == pass.draws >= 0

WithCall(pass, call) == [pass EXCEPT !.a = call.a, !.r = call.word, !.draws = @ + 1]

\* rng()
rng(pass) == WithCall(pass, mulberry32(pass.a))

\* n calls of rng() whose values go into coordinates, angles and sizes only
RECURSIVE rngTimes(_, _)
rngTimes(pass, n) ==
    IF Computed(pass) /\ n > 0 THEN rngTimes(rng(pass), n - 1) ELSE pass

Noted(pass, what, n) == [pass EXCEPT !.topology = Append(@, <<what, n>>)]

\* `rng() < bloomChance && p.friendHue !== undefined`, then drawBloom with its
\* size
drawBloom(pass, p) ==
    IF Below(pass.r, bloomChance(p)) /\ p.friendHue # None
    THEN Noted(rng(pass), "bloom", 1)
    ELSE pass

\* the loop over the leaves of one branch: lx, ly, the size, the bloom test
RECURSIVE leaves(_, _, _)
leaves(pass, count, p) ==
    IF Computed(pass) /\ count > 0
    THEN leaves(drawBloom(rng(rngTimes(pass, 3)), p), count - 1, p)
    ELSE pass

\* count = 1 + Math.floor(rng() * 3), then the loop
counted(pass, p) ==
    leaves(Noted(pass, "leaves", 1 + FloorTimes(pass.r, 3)), 1 + FloorTimes(pass.r, 3), p)

\* `rng() < leafiness`, for the pass after the call
leafTest(pass, p) ==
    IF Below(pass.r, leafiness(p)) THEN counted(rng(pass), p) ELSE Noted(pass, "leaves", 0)

\* `if (depth > maxDepth - 3 && rng() < leafiness)`
foliage(pass, depth, p) ==
    IF depth > maxDepth(p) - 3 THEN leafTest(rng(pass), p) ELSE Noted(pass, "leaves", 0)

\* ex = x + Math.cos(a) * len + bend * t * 0.18: the shift of the end point
endX(x, depth, p) == x + 9 * depth * sway(p)

\* the jitter of the angle, then the stroke to the end point
stroke(pass, x, depth, p) ==
    [Noted(rng(pass), "branch", depth) EXCEPT !.strokes = Append(@, endX(x, depth, p))]

RECURSIVE branch(_, _, _, _)
RECURSIVE splitBranches(_, _, _, _, _)

\* `if (rng() < 0.28)`: the side branch with its angle and length
sideBranch(pass, ex, depth, p) ==
    IF Computed(pass) /\ Below(pass.r, 2800)
    THEN branch(rngTimes(Noted(pass, "side", 1), 2), ex, depth + 1, p)
    ELSE Noted(pass, "side", 0)

\* splits = depth < 2 ? 1 : rng() < 0.65 ? 2 : 1, for the pass after the test
splits(pass, depth) == IF depth < 2 \/ ~Below(pass.r, 6500) THEN 1 ELSE 2

split(pass, ex, depth, p) ==
    splitBranches(Noted(pass, "splits", splits(pass, depth)), splits(pass, depth), ex, depth, p)

\* what follows `if (depth >= maxDepth) return`
grow(pass, ex, depth, p) ==
    IF Computed(pass) /\ depth < maxDepth(p)
    THEN sideBranch(rng(split(IF depth < 2 THEN pass ELSE rng(pass), ex, depth, p)),
                    ex, depth, p)
    ELSE pass

\* branch(x, y, ang, len, thick, depth): x is the shift of the start point
branch(pass, x, depth, p) ==
    IF Computed(pass)
    THEN grow(foliage(stroke(pass, x, depth, p), depth, p), endX(x, depth, p), depth, p)
    ELSE pass

\* the loop over the splits: nextAng, nextLen, nextThick, then the branch
splitBranches(pass, n, ex, depth, p) ==
    IF Computed(pass) /\ n > 0
    THEN splitBranches(branch(rngTimes(pass, 3), ex, depth + 1, p), n - 1, ex, depth, p)
    ELSE pass

\* `if (rng() < 0.12)`: fx, fy and the size of a falling leaf
fallingLeaf(pass) ==
    IF Below(pass.r, 1200) THEN rngTimes(Noted(pass, "falling", 1), 3) ELSE pass

\* the loop over the falling leaves
RECURSIVE fallingLeaves(_, _)
fallingLeaves(pass, i) ==
    IF Computed(pass) /\ i < 3 THEN fallingLeaves(fallingLeaf(rng(pass)), i + 1) ELSE pass

\* the generator as `mulberry32(Math.floor(seedUnit * 2 ** 31))` makes it
seeded(seed) ==
    [a |-> seedWord(hashToUnitFloat(seed).num), r |-> Word(0, 0), draws |-> 0,
     topology |-> <<>>, strokes |-> <<>>]

\* startX = cx + bend * 0.16
startX(p) == 8 * maxDepth(p) * sway(p)

\* renderBonsai(ctx, w, h, p) from `rng = mulberry32(..)`: the generator is
\* made from the seed, made again before the two base branches, and ends in
\* the falling leaves.
renderBonsai(p) ==
    fallingLeaves(branch(branch(seeded(p.seed), startX(p), 1, p), startX(p), 1, p), 0)

----------------------------------------------------------------------------
(* Inputs *)

\* accounts[0] as the wallet returns it
WalletAccount == <<"0", "x">> \o Rep("a", 40)

FriendA == <<" ", "0", "x">> \o <<"0","0","0","0","0","0","0","2","a","b","9","8">> \o Rep("F", 28) \o <<" ">>
FriendBad == <<"0", "x", "1", "2">>

\* What the graft input field (useState friendAddress) may hold.
FriendInputs == {<<>>, FriendA, FriendBad}

\* What graft() computes from the field before it looks at the game state:
\* addr = friendAddress.trim(), isLikelyAddress(addr), and the hue it will set.
BloomClick(friendAddress) ==
    LET addr == trim(friendAddress)
    IN  [addr  |-> addr,
         valid |-> isLikelyAddress(addr),
         hue   |-> IF isLikelyAddress(addr) THEN hueOf(addr) ELSE 0]

BloomClicks == {BloomClick(friendAddress) : friendAddress \in FriendInputs}

\* A record written by an earlier session: planted and last watered dWater
\* days before the page opens.
EarlierSession(dWater, g) ==
    saveState([plantedAt |-> Some(Epoch - 3 * MsPerDay), growth |-> g,
               lastWateredAt |-> Some(Epoch - dWater * MsPerDay),
               missedStreak |-> 0, revivedAt |-> None, lastGraftedAt |-> None])

\* Records whose members are missing or wrongly typed.
NoGrowth ==
    Obj([ZeroJson EXCEPT !.plantedAt = JNum(Epoch - MsPerDay), !.growth = JOther,
                         !.lastWateredAt = JNum(Epoch - MsPerDay)])
NoPlantedAt ==
    Obj([ZeroJson EXCEPT !.growth = JNum(2), !.lastWateredAt = JNum(Epoch - 3 * MsPerDay)])
FutureWatered ==
    Obj([ZeroJson EXCEPT !.plantedAt = JNum(Epoch - MsPerDay), !.growth = JNum(1),
                         !.lastWateredAt = JNum(Epoch + 9 * MsPerDay),
                         !.missedStreak = JNum(99)])

InitialRecords ==
    {Absent, Corrupt, EarlierSession(3, 2), NoGrowth, NoPlantedAt, FutureWatered}

----------------------------------------------------------------------------
(* sendGameTx *)

\* The ways sendGameTx returns: no provider (false), ensureBase false,
\* zero balance (false), walletSendCalls rejected by the user (false),
\* any other exception (false), walletSendCalls resolved (true).
SendGameTxOutcomes == {"noProvider", "chainFail", "noGas", "rejected", "failed", "confirmed"}

sendGameTxOk(outcome) == outcome = "confirmed"

\* The handler without its `if (!ok) return;`
handlerContinuesAlways(ok) == TRUE

\* `if (!ok) return;` in each handler
handlerContinues(ok) == ok

\* The last step, when a handler returned in it: which handler, and what
\* sendGameTx returned to it ("true", "false"); or "refused" when a handler
\* returned at its own validation.
Event(intent, result) == [intent |-> intent, result |-> result]
NoEvent == Event("-", "-")
Returned(intent, ok) == Event(intent, IF ok THEN "true" ELSE "false")

\* A handler suspended at `await sendGameTx(intent)`: its closure holds the
\* `local` of the render in which it was created.
Suspend(intent) ==
    inflight' = inflight (+) SetToBag({[intent |-> intent, local |-> local]})

----------------------------------------------------------------------------
(* The state each handler commits *)

plantNext(t) ==
    [plantedAt |-> Some(t), growth |-> 1, lastWateredAt |-> Some(t),
     missedStreak |-> 0, revivedAt |-> None, lastGraftedAt |-> None]

waterNext(l, t) ==
    [l EXCEPT !.growth = (IF l.growth = 0 THEN 1 ELSE l.growth) + 1,
              !.lastWateredAt = Some(t),
              !.missedStreak = 0]

reviveNext(l, t) ==
    [l EXCEPT !.missedStreak = 0, !.revivedAt = Some(t), !.lastWateredAt = Some(t)]

graftNext(l, t) == [l EXCEPT !.lastGraftedAt = Some(t)]

nextOf(intent, l, t) ==
    CASE intent = "plant"  -> plantNext(t)
      [] intent = "water"  -> waterNext(l, t)
      [] intent = "revive" -> reviveNext(l, t)
      [] intent = "graft"  -> graftNext(l, t)

----------------------------------------------------------------------------
(* Buttons: the disabled conditions of the dock *)

waterButtonEnabled ==
    ~(account = <<>> \/ (planted(local) /\ ~canWater(local, now)) \/ withered(local))

reviveButtonEnabled == ~(account = <<>> \/ ~planted(local) \/ ~withered(local))

bloomButtonEnabled == ~(account = <<>> \/ ~planted(local))

----------------------------------------------------------------------------
(* Actions *)

Init ==
    /\ now = Epoch
    /\ account = <<>>
    /\ local = ZeroState
    /\ stored \in InitialRecords
    /\ friendHue = None
    /\ inflight = EmptyBag
    /\ ev = NoEvent
    /\ tipState = "idle"
    /\ tips = EmptyBag
    /\ sent = <<>>
    /\ arg = None
    /\ out = None

\* Time passes.
Advance ==
    /\ \E t \in Clock : t > now /\ now' = t
    /\ ev' = NoEvent
    /\ UNCHANGED <<account, local, stored, friendHue, inflight, tip, arg, out>>

\* The effect on [account] without the recomputation: load, set and save.
accountLoadEffectAsStored ==
    /\ local' = loadState(stored)
    /\ stored' = saveState(loadState(stored))

\* The effect on [account] without its save: load, recompute, set.
accountLoadEffectUnsaved ==
    /\ local' = [loadState(stored) EXCEPT !.missedStreak = computeMissedStreak(loadState(stored), now)]
    /\ stored' = stored

\* The effect on [account]: load, recompute missedStreak, set and save.
accountLoadEffect ==
    LET st     == loadState(stored)
        missed == computeMissedStreak(st, now)
        merged == [st EXCEPT !.missedStreak = missed]
    IN  /\ local' = merged
        /\ stored' = saveState(merged)

\* The Connect button (shown as the connect handler while account is empty),
\* followed on success by the effect on [account].
connect ==
    /\ account = <<>>
    /\ \E outcome \in {"noProvider", "failed", "connected"} :
         /\ ev' = NoEvent
         /\ IF outcome = "connected"
            THEN account' = WalletAccount /\ accountLoadEffect
            ELSE UNCHANGED <<account, local, stored>>
    /\ UNCHANGED <<now, friendHue, inflight, tip, arg, out>>

\* The validation at the head of each handler: it returns with a toast when
\* one of these fails.
plantValid == account # <<>> /\ ~planted(local)

waterValid == account # <<>> /\ planted(local) /\ canWater(local, now)

reviveValid == account # <<>> /\ planted(local) /\ ~(local.missedStreak < 3)

graftValid(validAddress) == account # <<>> /\ planted(local) /\ validAddress

\* The handler returns at its validation: a toast and nothing else.
Refuse ==
    /\ ev' = Event("-", "refused")
    /\ UNCHANGED <<friendHue, inflight>>

\* plant(), up to `await sendGameTx("plant")`.  The dock calls it from the
\* main button while nothing is planted.
plant ==
    /\ IF ~plantValid
       THEN Refuse
       ELSE /\ waterButtonEnabled
            /\ BagCardinality(inflight) < MaxInflight
            /\ Suspend("plant")
            /\ ev' = NoEvent
            /\ UNCHANGED friendHue
    /\ UNCHANGED <<now, account, local, stored, tip, arg, out>>

\* water(), up to `await sendGameTx("water")`.  The dock calls it from the
\* main button once something is planted.
water ==
    /\ IF ~waterValid
       THEN Refuse
       ELSE /\ waterButtonEnabled
            /\ BagCardinality(inflight) < MaxInflight
            /\ Suspend("water")
            /\ ev' = NoEvent
            /\ UNCHANGED friendHue
    /\ UNCHANGED <<now, account, local, stored, tip, arg, out>>

\* revive(), up to `await sendGameTx("revive")`
revive ==
    /\ IF ~reviveValid
       THEN Refuse
       ELSE /\ reviveButtonEnabled
            /\ BagCardinality(inflight) < MaxInflight
            /\ Suspend("revive")
            /\ ev' = NoEvent
            /\ UNCHANGED friendHue
    /\ UNCHANGED <<now, account, local, stored, tip, arg, out>>

\* graft(), up to `await sendGameTx("graft")`, with friendAddress the content
\* of the input field when Bloom is clicked: an invalid address is refused with
\* a toast; otherwise the hue is set and the request is made.
graft ==
    /\ \E bloom \in BloomClicks :
         IF ~graftValid(bloom.valid)
         THEN Refuse
         ELSE /\ bloomButtonEnabled
              /\ BagCardinality(inflight) < MaxInflight
              /\ friendHue' = Some(bloom.hue)
              /\ Suspend("graft")
              /\ ev' = NoEvent
    /\ UNCHANGED <<now, account, local, stored, tip, arg, out>>

\* sendGameTx returns to a suspended handler, which returns on false and
\* otherwise commits `next`, computed from its closure's `local`.
sendGameTxReturns ==
    \E h \in BagToSet(inflight) :
        \E ok \in {sendGameTxOk(outcome) : outcome \in SendGameTxOutcomes} :
            /\ inflight' = inflight (-) SetToBag({h})
            /\ ev' = Returned(h.intent, ok)
            /\ IF handlerContinues(ok)
               THEN /\ local' = nextOf(h.intent, h.local, now)
                    /\ stored' = saveState(nextOf(h.intent, h.local, now))
               ELSE UNCHANGED <<local, stored>>
            /\ UNCHANGED <<now, account, friendHue, tip, arg, out>>

\* The page is reloaded: the component is constructed again, the suspended
\* handlers are gone, localStorage stays.
Reload ==
    /\ account # <<>>
    /\ account' = <<>>
    /\ local' = ZeroState
    /\ friendHue' = None
    /\ inflight' = EmptyBag
    /\ ev' = NoEvent
    /\ UNCHANGED <<now, stored, tip, arg, out>>

Next ==
    \/ Advance
    \/ connect
    \/ plant
    \/ water
    \/ revive
    \/ graft
    \/ sendGameTxReturns
    \/ Reload

Spec == Init /\ [][Next]_vars

----------------------------------------------------------------------------
(* Claims *)

\* The step is the return of a handler of this intent after sendGameTx
\* returned true: the handler's commit.
Commits(intent) == ev' = Returned(intent, TRUE)

\* The step is the return of a handler after sendGameTx returned false.
Fails == ev'.result = "false" /\ BagCardinality(inflight') < BagCardinality(inflight)

\* C1: whenever sendGameTx returns false to plant, water, revive or graft
\* (declined, failed, or never sent: no provider, chain check failed, zero
\* balance), the step leaves the persisted record and the in-memory state
\* exactly as they were: no failure path saves.
C1_FailureLeavesRecord ==
    [][Fails => stored' = stored /\ local' = local]_vars

\* C1 witness: a handler has just returned on a failed request while a planted
\* record is persisted and a second handler is still suspended.
C1_Witness ==
    /\ ev.result = "false"
    /\ ev.intent \in {"water", "revive", "graft"}
    /\ planted(loadState(stored))
    /\ inflight # EmptyBag

\* C2: a watering commits only over a state that is planted, not withered and
\* last watered at least one hour ago, and the commit records the watering.
C2_WaterOnlyWhenLegal ==
    [][Commits("water") =>
          /\ planted(local) /\ ~withered(local) /\ canWater(local, now)
          /\ local'.lastWateredAt = Some(now)]_vars

\* C3: a watering commit raises growth by exactly 1 over the state just before
\* the commit and resets missedStreak to 0 (stated for the states with
\* growth >= 1, leaving aside a stored record without growth, see C10).
C3_WaterAddsOne ==
    [][(Commits("water") /\ local.growth >= 1) =>
          local'.growth = local.growth + 1 /\ local'.missedStreak = 0]_vars

\* C4: a plant commits only over an unplanted state, and commits exactly
\* plantedAt = now, growth = 1, lastWateredAt = now, missedStreak = 0.
C4_PlantOnlyUnplanted ==
    [][Commits("plant") =>
          /\ ~planted(local)
          /\ local' = [plantedAt |-> Some(now), growth |-> 1,
                       lastWateredAt |-> Some(now), missedStreak |-> 0,
                       revivedAt |-> None, lastGraftedAt |-> None]]_vars

\* C5: a revive commits only over a withered state (missedStreak >= 3), and
\* commits missedStreak = 0, revivedAt = now, lastWateredAt = now.
C5_ReviveOnlyWithered ==
    [][Commits("revive") =>
          /\ local.missedStreak >= 3
          /\ local'.missedStreak = 0
          /\ local'.revivedAt = Some(now)
          /\ local'.lastWateredAt = Some(now)]_vars

\* C6: within a session the accent hue changes only in the step that commits
\* a confirmed graft; in particular it does not change when a graft is
\* requested and is as before when the graft is declined or fails.
C6_HueOnlyOnConfirmedGraft ==
    [][(friendHue' # friendHue /\ account' # <<>>) => Commits("graft")]_vars

\* C7: at most one handler of the account is suspended on its on-chain
\* request at any time.
C7_OneActionOutstanding == BagCardinality(inflight) <= 1

\* C8: for a connected, planted account missedStreak equals
\* clamp(floor(days since lastWateredAt), 0, 30) in every state.
C8_MissedStreakTracksTime ==
    (account # <<>> /\ planted(local) /\ local.lastWateredAt # None) =>
        local.missedStreak = clamp((now - local.lastWateredAt[1]) \div MsPerDay, 0, 30)

\* C9: no step lowers growth, in memory (while the session lasts) or in the
\* persisted record.
C9_GrowthNeverDecreases ==
    [][/\ account' # <<>> => local'.growth >= local.growth
       /\ loadState(stored').growth >= loadState(stored).growth]_vars

\* C10: once the account is loaded, plantedAt set implies growth >= 1, in
\* memory and in the persisted record.
C10_PlantedHasGrowth ==
    account # <<>> =>
        /\ planted(local) => local.growth >= 1
        /\ planted(loadState(stored)) => loadState(stored).growth >= 1

\* C11: in every state the in-memory missedStreak is an integer from 0 to 30,
\* whatever the stored record held (a stored missedStreak of 99, a
\* lastWateredAt in the future); the clamp that bounds it does so for every
\* number of elapsed days, also those beyond the instants of Clock.
C11_MissedStreakInRange ==
    /\ local.missedStreak \in 0..30
    /\ \A d \in (0 - MaxElapsedDays)..MaxElapsedDays : clamp(d, 0, 30) \in 0..30

\* C11 witness: the account is loaded from a record last watered in the
\* future, and the streak in memory is 0.
C11_Witness ==
    /\ account # <<>>
    /\ local.lastWateredAt # None
    /\ local.lastWateredAt[1] > now
    /\ local.missedStreak = 0

\* C12: the game state moves only along Unplanted -> Alive (plant),
\* Alive -> Withered (decay), Withered -> Alive (revive) and Alive -> Alive
\* (water, graft): no step of a connected account unsets plantedAt, an
\* unplanted account is never withered, and a withered account becomes alive
\* only in the step that commits a revive.
C12_StateMachine ==
    [][account' # <<>> =>
          /\ (account # <<>> /\ planted(local)) => planted(local')
          /\ ~planted(local') => ~withered(local')
          /\ (account # <<>> /\ withered(local) /\ ~withered(local'))
                => Commits("revive")]_vars

\* A handler of this intent is suspended on its on-chain request in this step.
Requests(intent) ==
    \E h \in BagToSet(inflight') :
        h.intent = intent /\ CopiesIn(h, inflight') > CopiesIn(h, inflight)

C14_CommitFrame ==
    [][/\ Commits("revive") => local'.growth = local.growth
       /\ Commits("graft") =>
             /\ local'.growth = local.growth
             /\ local'.missedStreak = local.missedStreak
             /\ local'.lastWateredAt = local.lastWateredAt]_vars

\* C15: loading an account sets missedStreak to clamp(floor(days since
\* lastWateredAt), 0, 30) (0 without a lastWateredAt) whatever missedStreak
\* the record held, leaves every other field as loadState read it, and writes
\* the result back; loading the written record again at the same instant
\* gives the same in-memory state and the same record.
C15_LoadRecomputesAndIsIdempotent ==
    [][(account = <<>> /\ account' # <<>>) =>
          LET st     == loadState(stored)
              again  == loadState(stored')
              missed(r) == IF ~Truthy(r.lastWateredAt) THEN 0
                           ELSE clamp((now' - r.lastWateredAt[1]) \div MsPerDay, 0, 30)
              second == [again EXCEPT !.missedStreak = missed(again)]
          IN  /\ local'.missedStreak = missed(st)
              /\ local' = [st EXCEPT !.missedStreak = local'.missedStreak]
              /\ again = local'
              /\ second = local'
              /\ saveState(second) = stored']_vars

\* C15 witness: the account has been loaded a second time, after a reload that
\* followed a committed graft, and the withered streak has been recomputed.
C15_Witness ==
    /\ account # <<>>
    /\ friendHue = None
    /\ local.lastGraftedAt # None
    /\ local.missedStreak = 3
    /\ loadState(stored) = local
    /\ ev = NoEvent

----------------------------------------------------------------------------
(* The helpers on their own: each specification below starts from an argument *)
(* drawn from a set of inputs and has one step, the call.                    *)

\* The App component as constructed, before anything is clicked.
Constructed ==
    /\ now = Epoch
    /\ account = <<>>
    /\ local = ZeroState
    /\ stored = Absent
    /\ friendHue = None
    /\ inflight = EmptyBag
    /\ ev = NoEvent
    /\ tipState = "idle"
    /\ tips = EmptyBag
    /\ sent = <<>>

app == <<game, tip>>

----------------------------------------------------------------------------
(* loadState on its own *)

MemberValues == {JNum(Epoch - MsPerDay), JNum(0), JOther, JMissing}

JsonObjects ==
    [plantedAt : MemberValues, growth : MemberValues, lastWateredAt : MemberValues,
     missedStreak : MemberValues, revivedAt : {JMissing, JOther}, lastGraftedAt : {JMissing, JNum(Epoch)}]

StoredValues ==
    {Absent} \cup {Obj(j) : j \in JsonObjects} \cup {Truncated(j) : j \in JsonObjects}

InitLoad == Constructed /\ arg \in StoredValues /\ out = None

loadStateCall ==
    /\ out = None
    /\ out' = Some(loadState(arg))
    /\ UNCHANGED <<app, arg>>

SpecLoad == InitLoad /\ [][loadStateCall]_vars

\* C16: loadState returns for every stored value, and for an absent record
\* and for a value that does not parse it returns the zero-value state:
\* growth 0, missedStreak 0, every optional field unset.
C16_CorruptIsAbsent ==
    (out # None /\ arg.kind \in {"absent", "corrupt"}) =>
        out[1] = [plantedAt |-> <<>>, growth |-> 0, lastWateredAt |-> <<>>,
                  missedStreak |-> 0, revivedAt |-> <<>>, lastGraftedAt |-> <<>>]

\* C16 witness: loadState has returned the zero-value state for a value that
\* does not parse although a plantedAt and a growth can be made out in it.
C16_Witness ==
    /\ out # None
    /\ arg.kind = "corrupt"
    /\ arg.j.plantedAt[1] = "num" /\ arg.j.plantedAt[2] > 0
    /\ arg.j.growth[1] = "num"
    /\ out[1].plantedAt = <<>>
    /\ out[1].growth = 0

----------------------------------------------------------------------------
(* The calldata encoders on their own *)

MaxTagLen == 33          \* characters of the longest action tag encoded
MaxPayloadDigits == 66   \* hex digits of the longest auxiliary payload
MaxAmountDigits == 65    \* hex digits of the largest amount
MaxTips == 2             \* tips under way or submitted

TIP_RECIPIENT == <<"0","x">> \o <<"5","e","C","6","A","F","0","7","9","8","b","2","5","C","5","6","3","B","1","0","2","d","3","4","6","9","9","7","1","f","1","a","8","d","5","9","8","1","2","1">>

Tags ==
    {<<"p","l","a","n","t">>, <<"w","a","t","e","r">>, <<"r","e","v","i","v","e">>, <<"g","r","a","f","t">>,
     <<>>, <<"é">>, Rep("a", MaxTagLen - 2) \o <<"é">>}
      \cup {Rep("a", k) : k \in (MaxTagLen - 2)..MaxTagLen}

\* k hex digits, none of them repeated next to itself
Digits(k) == [i \in 1..k |-> LowerHexDigits[(i % 16) + 1]]

Payloads ==
    {Digits(k) : k \in 0..MaxPayloadDigits}
      \cup {<<"0", "x">> \o Digits(k) : k \in 0..MaxPayloadDigits}

Recipients ==
    {TIP_RECIPIENT, WalletAccount,
     <<>>, FriendBad,
     Slice(TIP_RECIPIENT, 3, 42),
     TIP_RECIPIENT \o <<"0">>,
     <<" ">> \o TIP_RECIPIENT,
     <<"0", "X">> \o Rep("a", 40),
     <<"0", "x">> \o Rep("a", 39) \o <<"g">>}

Amounts ==
    {BigIntOf(n) : n \in {0 - 5000000, 0 - 1, 0, 1, 255, 5000000}}
      \cup {[neg |-> sign, mag |-> Rep("f", k)] : sign \in BOOLEAN, k \in 1..MaxAmountDigits}
      \cup {[neg |-> FALSE, mag |-> <<"1">> \o Rep("0", k - 1)] : k \in 2..MaxAmountDigits}

Call(fn, a, b) == [fn |-> fn, a |-> a, b |-> b]

LogActionCalls ==
    {Call("encodeLogAction", action, dataHex) : action \in Tags, dataHex \in Payloads}

TransferCalls ==
    {Call("encodeUsdcTransfer", to, amount) : to \in Recipients, amount \in Amounts}

\* The amounts sendTip may find in resolvedTipUsd(), in tenths of a millionth
\* of a dollar: nothing, less than half a base unit, half a base unit, $1, $25.
TipAmounts == {0, 4, 5, 10 * Million, 250 * Million}

TipCalls == {Call("sendTip", usd, <<>>) : usd \in TipAmounts}

InitEncode ==
    /\ Constructed
    /\ \/ arg \in LogActionCalls
       \/ arg \in TransferCalls
       \/ arg \in TipCalls
    /\ out = None

encodeLogActionCall ==
    /\ arg.fn = "encodeLogAction"
    /\ out = None
    /\ out' = Some(encodeLogAction(arg.a, arg.b))
    /\ UNCHANGED <<app, arg>>

encodeUsdcTransferCall ==
    /\ arg.fn = "encodeUsdcTransfer"
    /\ out = None
    /\ out' = Some(encodeUsdcTransfer(arg.a, arg.b))
    /\ UNCHANGED <<app, arg>>

\* Math.round(usd * 1_000_000) for usd >= 0 given in tenths of a millionth
roundBaseUnits(usd) == (usd + 5) \div 10

\* A sendTip run suspended at an await.
TipRun(pc) == [pc |-> pc]

\* The run leaves through `setTipState("idle")`: ensureBase false, or the catch.
TipRunEnds(run) ==
    /\ tipState' = "idle"
    /\ tips' = tips (-) SetToBag({run})

\* The Send button of the tip sheet: sendTip() up to `await sleep(1250)`.
\* Without a provider, or with an amount that is not above zero, it returns
\* with a toast.
sendTip ==
    /\ arg.fn = "sendTip"
    /\ \E provider \in BOOLEAN :
         IF ~provider \/ arg.a <= 0
         THEN UNCHANGED <<tip, out>> /\ ev' = Event("tip", "refused")
         ELSE /\ ~(tipState \in {"preparing", "sending"} \/ arg.a <= 0)
              /\ BagCardinality(tips) + Len(sent) < MaxTips
              /\ tipState' = "preparing"
              /\ tips' = tips (+) SetToBag({TipRun("preparing")})
              /\ ev' = NoEvent
              /\ UNCHANGED <<sent, out>>
    /\ UNCHANGED <<now, account, local, stored, friendHue, inflight, arg>>

\* sendTip from the end of the sleep to `await requestAccounts(provider)`
sendTipEnsuresBase ==
    \E run \in BagToSet(tips) :
        /\ run.pc = "preparing"
        /\ \E ensureBase \in {"true", "false", "throws"} :
              IF ensureBase = "true"
              THEN /\ tipState' = "confirm"
                   /\ tips' = (tips (-) SetToBag({run})) (+) SetToBag({TipRun("confirm")})
              ELSE TipRunEnds(run)
        /\ UNCHANGED <<game, sent, arg, out>>

\* sendTip from the return of requestAccounts to `await walletSendCalls(..)`:
\* the amount is converted and encoded; when the encoder throws, the catch
\* sets tipState to idle and no call is made.
sendTipEncodes ==
    \E run \in BagToSet(tips) :
        /\ run.pc = "confirm"
        /\ \E accounts \in {"returned", "throws"} :
              IF accounts = "throws"
              THEN TipRunEnds(run) /\ UNCHANGED <<sent, out>>
              ELSE LET data == encodeUsdcTransfer(TIP_RECIPIENT, BigIntOf(roundBaseUnits(arg.a)))
                   IN  /\ out' = Some(data)
                       /\ IF data.threw
                          THEN TipRunEnds(run) /\ UNCHANGED sent
                          ELSE /\ tipState' = "sending"
                               /\ sent' = Append(sent, data.hex)
                               /\ tips' = (tips (-) SetToBag({run})) (+) SetToBag({TipRun("sending")})
        /\ UNCHANGED <<game, arg>>

\* walletSendCalls returns to sendTip.
walletSendCallsReturns ==
    \E run \in BagToSet(tips) :
        /\ run.pc = "sending"
        /\ \E resolved \in BOOLEAN :
              IF resolved
              THEN tipState' = "done" /\ tips' = tips (-) SetToBag({run})
              ELSE TipRunEnds(run)
        /\ UNCHANGED <<game, sent, arg, out>>

\* onClose of the tip sheet: the sheet is closed (and may be opened again)
\* with tipState idle, whatever a run of sendTip is waiting for.
closeTipSheet ==
    /\ arg.fn = "sendTip"
    /\ tipState' = "idle"
    /\ UNCHANGED <<game, tips, sent, arg, out>>

NextEncode ==
    \/ encodeLogActionCall
    \/ encodeUsdcTransferCall
    \/ sendTip
    \/ sendTipEnsuresBase
    \/ sendTipEncodes
    \/ walletSendCallsReturns
    \/ closeTipSheet

SpecEncode == InitEncode /\ [][NextEncode]_vars

\* The byte written as the two hex digits at position i of a hex string.
ByteAt(h, i) == HexVal(h[i]) * 16 + HexVal(h[i + 1])

\* A run of hex digits without its leading zeros ("0" when all are zero).
RECURSIVE StripZeros(_)
StripZeros(digits) ==
    IF Len(digits) > 1 /\ Head(digits) = "0" THEN StripZeros(Tail(digits)) ELSE digits

\* The auxiliary payload of the call, without an 0x prefix.
PayloadDigits ==
    IF Len(arg.b) >= 2 /\ arg.b[1] = "0" /\ arg.b[2] = "x" THEN SubSeq(arg.b, 3, Len(arg.b)) ELSE arg.b

\* encodeLogAction returned: selector 2d9bc1fb, the tag's bytes followed by
\* zeros in one 32-byte slot, the offset word 0x40, the payload's length n as a
\* 32-byte big-endian word, and the payload followed by zeros up to the next
\* 32-byte boundary: 4 + 96 + 32 * ceil(n / 32) bytes.
LogActionLayout ==
    LET h     == out[1].hex
        bytes == utf8Bytes(arg.a)
        n     == Len(PayloadDigits) \div 2
    IN  /\ ~out[1].threw
        /\ Len(h) = 2 + 2 * (4 + 96 + 32 * ((n + 31) \div 32))
        /\ SubSeq(h, 1, 10) = <<"0","x","2","d","9","b","c","1","f","b">>
        /\ \A i \in 1..32 : ByteAt(h, 9 + 2 * i) = (IF i <= Len(bytes) THEN bytes[i] ELSE 0)
        /\ \A i \in 1..32 : ByteAt(h, 73 + 2 * i) = (IF i = 32 THEN 64 ELSE 0)
        /\ StripZeros(SubSeq(h, 139, 202)) = toString16(n)
        /\ SubSeq(h, 203, 202 + 2 * n) = PayloadDigits
        /\ \A i \in (203 + 2 * n)..Len(h) : h[i] = "0"

\* The call is encodeLogAction with a payload of a whole number of bytes.
LogActionReturned ==
    /\ out # None
    /\ arg.fn = "encodeLogAction"
    /\ Len(PayloadDigits) % 2 = 0

TransferReturned ==
    /\ out # None
    /\ arg.fn = "encodeUsdcTransfer"
    /\ Len(arg.a) = 42 /\ arg.a[1] = "0" /\ arg.a[2] = "x"
    /\ \A i \in 3..42 : arg.a[i] \in HexChars
    /\ ~arg.b.neg /\ arg.b.mag # <<"0">>

\* encodeUsdcTransfer returned exactly 68 bytes: selector a9059cbb, 12 zero
\* bytes and the 20 bytes of the address, and the amount as a 32-byte
\* big-endian word.
TransferLayout ==
    LET h == out[1].hex
    IN  /\ ~out[1].threw
        /\ Len(h) = 2 + 2 * 68
        /\ SubSeq(h, 1, 10) = <<"0","x","a","9","0","5","9","c","b","b">>
        /\ \A i \in 1..12 : ByteAt(h, 9 + 2 * i) = 0
        /\ \A i \in 1..20 : ByteAt(h, 33 + 2 * i) = ByteAt(arg.a, 1 + 2 * i)
        /\ StripZeros(SubSeq(h, 75, 138)) = arg.b.mag

\* C18, as claimed: for every valid 20-byte address and every strictly
\* positive integer amount encodeUsdcTransfer returns exactly the 68 bytes
\* above.
C18_TransferLayoutAnyAmount == TransferReturned => TransferLayout

\* C18, amended: for every valid 20-byte address and every strictly positive
\* amount below 2^256 (at most 64 hex digits) encodeUsdcTransfer returns
\* exactly the 68 bytes above; a larger amount is not cut to the word.
C18_TransferLayout ==
    (TransferReturned /\ Len(arg.b.mag) <= 64) => TransferLayout

\* C18 witness: 5000000 base units have been encoded for the tip recipient,
\* whose address is written in mixed case.
C18_Witness ==
    /\ TransferReturned
    /\ arg.a = TIP_RECIPIENT
    /\ arg.b.mag = <<"4","c","4","b","4","0">>
    /\ SubSeq(out[1].hex, 133, 138) = <<"4","c","4","b","4","0">>
    /\ SubSeq(out[1].hex, 35, 38) = <<"5","e","c","6">>

----------------------------------------------------------------------------
(* The renderer on its own: the frames drawn for one set of parameters *)

MaxRenderGrowth == 3    \* the largest growth drawn

ZeroAddress == <<"0", "x">> \o Rep("0", 40)

\* seed, growth, activity (nonce 0 and 9999) and friendHue of the render
\* effect
RenderInputs ==
    [seed : {ZeroAddress, WalletAccount}, growth : 0..MaxRenderGrowth,
     activity : {0, 1000}, friendHue : {None, Some(hueOf(trim(FriendA)))}]

\* 0.5 + Math.sin(ts / 1600) * 0.5, at its ends
Breezes == {0, 1000}

InitRender == Constructed /\ arg \in RenderInputs /\ out = <<>>

\* frame(ts): one pass of renderBonsai with the breeze of the instant; out
\* keeps the last two frames drawn.
frame ==
    /\ \E breeze \in Breezes :
         LET p == [seed |-> arg.seed, growth |-> arg.growth, activity |-> arg.activity,
                   friendHue |-> arg.friendHue, breeze |-> breeze]
             drawn == [breeze |-> breeze, pass |-> renderBonsai(p)]
         IN  out' = IF out = <<>> THEN <<drawn>> ELSE <<out[Len(out)], drawn>>
    /\ UNCHANGED <<app, arg>>

SpecRender == InitRender /\ [][frame]_vars

\* C20: a frame and the frame before it, drawn with the same seed, growth and
\* activity (and accent hue), have the same branch topology, the same sequence
\* of branch calls with their depths, split and side-branch decisions, leaf
\* and bloom counts, and leave the generator in the same state after the same
\* number of calls, whatever their breezes.
C20_TopologyIndependentOfBreeze ==
    \A i, j \in 1..Len(out) :
        /\ out[i].pass.topology = out[j].pass.topology
        /\ out[i].pass.draws = out[j].pass.draws
        /\ out[i].pass.a = out[j].pass.a

\* C20 witness: two frames of a tree with leaves and more than ten branches
\* were drawn with different breezes, and their strokes end at different
\* places.
C20_Witness ==
    /\ Len(out) = 2
    /\ out[1].breeze # out[2].breeze
    /\ out[1].pass.strokes # out[2].pass.strokes
    /\ Len(out[1].pass.strokes) > 10
    /\ \E k \in 1..Len(out[1].pass.topology) :
          out[1].pass.topology[k][1] = "leaves" /\ out[1].pass.topology[k][2] > 1

\* C19: the encoders reject malformed input with an error and no output:
\* encodeUsdcTransfer for every recipient that is not 0x followed by 40 hex
\* digits and for every amount <= 0, encodeLogAction for every payload with
\* an odd number of hex digits; and a tip whose amount the encoder rejects
\* never submits a call to the wallet.
C19_MalformedInputRejected ==
    /\ (out # None /\ arg.fn = "encodeUsdcTransfer") =>
          ((\/ ~(/\ Len(arg.a) = 42 /\ arg.a[1] = "0" /\ arg.a[2] = "x"
                 /\ \A i \in 3..42 : arg.a[i] \in HexChars)
            \/ arg.b.neg
            \/ arg.b.mag = <<"0">>)
           => (out[1].threw /\ out[1].hex = <<>>))
    /\ (out # None /\ arg.fn = "encodeLogAction" /\ Len(PayloadDigits) % 2 = 1) =>
          (out[1].threw /\ out[1].hex = <<>>)
    /\ (arg.fn = "sendTip" /\ arg.a < 5) =>
          (sent = <<>> /\ tipState \notin {"sending", "done"})

\* C19 witness: a tip of less than half a base unit was confirmed up to the
\* encoder, which threw; the sheet is idle again and nothing was submitted.
C19_Witness ==
    /\ arg.fn = "sendTip"
    /\ arg.a > 0
    /\ out # None
    /\ out[1].threw
    /\ tipState = "idle"
    /\ tips = EmptyBag
    /\ sent = <<>>

----------------------------------------------------------------------------
(* The recursion of branch on its own, one call or return at a time, with   *)
(* every outcome of the seeded generator: the number of splits and the side *)
(* branch test are free choices.  out is the call stack of one render pass  *)
(* (each frame: the depth of the call, the iterations of the split loop     *)
(* still to run, and whether the side-branch test is still ahead) with the  *)
(* number of base branches still to draw.                                   *)

MaxBranchGrowth == 12   \* the largest growth whose recursion is followed

InitBranch ==
    /\ Constructed
    /\ arg \in [growth : 0..MaxBranchGrowth]
    /\ out = [stack |-> <<>>, base |-> 2]

\* The frames a call of branch at this depth can have once it has drawn its
\* stroke and leaves: none of the loop when `depth >= maxDepth` returns,
\* else `splits = depth < 2 ? 1 : rng() < 0.65 ? 2 : 1` iterations.
Frames(depth) ==
    IF depth >= maxDepth(arg)
    THEN {[depth |-> depth, left |-> 0, side |-> FALSE]}
    ELSE {[depth |-> depth, left |-> n, side |-> TRUE] :
             n \in IF depth < 2 THEN {1} ELSE {1, 2}}

Top == out.stack[Len(out.stack)]

Called(stack, depth) ==
    /\ \E f \in Frames(depth) : out' = [out EXCEPT !.stack = Append(stack, f)]
    /\ UNCHANGED <<app, arg>>

\* the two calls `branch(startX, startY, .., 1)` of renderBonsai
baseBranch ==
    /\ out.stack = <<>>
    /\ out.base > 0
    /\ \E f \in Frames(1) : out' = [stack |-> <<f>>, base |-> out.base - 1]
    /\ UNCHANGED <<app, arg>>

\* one iteration of `for (let i = 0; i < splits; i++)`: the call of the child
splitBranch ==
    /\ out.stack # <<>>
    /\ Top.left > 0
    /\ Called([out.stack EXCEPT ![Len(out.stack)].left = @ - 1], Top.depth + 1)

\* `if (rng() < 0.28)` after the loop: the side branch is called or not
sideTest ==
    /\ out.stack # <<>>
    /\ Top.left = 0
    /\ Top.side
    /\ \/ Called([out.stack EXCEPT ![Len(out.stack)].side = FALSE], Top.depth + 1)
       \/ /\ out' = [out EXCEPT !.stack = [out.stack EXCEPT ![Len(out.stack)].side = FALSE]]
          /\ UNCHANGED <<app, arg>>

\* the call returns
branchReturns ==
    /\ out.stack # <<>>
    /\ Top.left = 0
    /\ ~Top.side
    /\ out' = [out EXCEPT !.stack = SubSeq(out.stack, 1, Len(out.stack) - 1)]
    /\ UNCHANGED <<app, arg>>

NextBranch == baseBranch \/ splitBranch \/ sideTest \/ branchReturns

\* renderBonsai is one synchronous call: it runs while it has a step to take.
SpecBranch == InitBranch /\ [][NextBranch]_vars /\ WF_vars(NextBranch)

BranchPassEnded == out.stack = <<>> /\ out.base = 0

\* C21: for every growth the maximum depth D = clamp(3 + floor(growth / 1.5),
\* 3, 10) lies in 3..10; at every moment of a render pass, whatever the
\* generator returns, every branch call on the stack has a depth of at most
\* D, the calls on the stack have depths 1, 2, 3, .. (each the child of the
\* one below), a call at depth D has no loop iteration and no side branch
\* ahead (no children); and the pass ends: both base branches return.
C21_BranchRecursionBounded ==
    /\ [](/\ maxDepth(arg) \in 3..10
          /\ \A i \in 1..Len(out.stack) :
                /\ out.stack[i].depth = i
                /\ out.stack[i].depth <= maxDepth(arg)
                /\ out.stack[i].depth = maxDepth(arg) =>
                      (out.stack[i].left = 0 /\ ~out.stack[i].side))
    /\ <>BranchPassEnded

\* C21 witness: with a growth for which 3 + floor(growth / 1.5) exceeds 10, a
\* call at depth 10 is on the stack, about to return, while its parent still
\* has its side-branch test ahead.
C21_Witness ==
    /\ 3 + (2 * arg.growth) \div 3 > 10
    /\ Len(out.stack) = 10
    /\ Top.depth = maxDepth(arg)
    /\ Top.left = 0
    /\ out.stack[9].side

----------------------------------------------------------------------------
(* The seeded generator on its own: three generators made by mulberry32,   *)
(* the first two from the same seed, each with the `a` of its own closure. *)
(* out holds, per generator, its state and the words it has returned.      *)

MaxDraws == 5           \* calls followed on each generator

\* 32-bit seeds: 0, 1, the seed of the zero address and of the wallet
\* account as renderBonsai computes them, and 2^32 - 1
Seeds ==
    {Word(0, 0), Word(0, 1), seedWord(hashToUnitFloat(WalletAccount).num),
     Word(Half - 1, Half - 1)}

InitPrng ==
    /\ Constructed
    /\ arg \in [seed : Seeds, other : {seedWord(698666)}]
    /\ out = [a |-> <<arg.seed, arg.seed, arg.other>>, seq |-> <<<<>>, <<>>, <<>>>>]

\* every generator advancing on a call of one of them
calledOnShared(gens, i) ==
    [a   |-> [k \in 1..3 |-> mulberry32(gens.a[i]).a],
     seq |-> [gens.seq EXCEPT ![i] = Append(@, mulberry32(gens.a[i]).word)]]

\* one call of the function that mulberry32 returned as generator i
calledOn(gens, i) ==
    [a   |-> [gens.a EXCEPT ![i] = mulberry32(gens.a[i]).a],
     seq |-> [gens.seq EXCEPT ![i] = Append(@, mulberry32(gens.a[i]).word)]]

rngCall ==
    /\ \E i \in 1..3 :
         /\ Len(out.seq[i]) < MaxDraws
         /\ out' = calledOn(out, i)
    /\ UNCHANGED <<app, arg>>

SpecPrng == InitPrng /\ [][rngCall]_vars

----------------------------------------------------------------------------
(* hashToUnitFloat on its own: out holds what successive calls on the same *)
(* identifier returned.                                                     *)

MaxIdLen == 3           \* the longest of the short identifiers
MaxHashCalls == 2       \* calls on one identifier

IdChars == {"0", "x", "f", "A", "-", "z"}

RECURSIVE IdStrings(_)
IdStrings(k) ==
    IF k = 0 THEN {<<>>}
    ELSE IdStrings(k - 1) \cup {Append(id, c) : id \in IdStrings(k - 1), c \in IdChars}

\* the addresses the program passes (the account, the zero address, the
\* friend's address of a graft) and every short string
Identifiers == {WalletAccount, ZeroAddress, trim(FriendA)} \cup IdStrings(MaxIdLen)

InitHash == Constructed /\ arg \in Identifiers /\ out = <<>>

hashToUnitFloatCall ==
    /\ Len(out) < MaxHashCalls
    /\ out' = Append(out, hashToUnitFloat(arg))
    /\ UNCHANGED <<app, arg>>

SpecHash == InitHash /\ [][hashToUnitFloatCall]_vars

\* the integer of the leading hex digits of the identifier (after its 0x
\* prefix, at most 12 of them), modulo one million; 0 when there is none
LeadingHexMod(id) == HexMod(HexPrefix(Slice(strip0x(id), 1, 12)), 0)

\* C23: for every identifier, every call of hashToUnitFloat returns a number
\* (not NaN) of millionths from 0 to 999999, equal to the integer of the
\* identifier's leading hex digits modulo one million (0 when it has none),
\* the same on every call, and the hue floor(value * 360) is in 0..359.
C23_HashDefined ==
    \A n \in 1..Len(out) :
        /\ ~out[n].nan
        /\ out[n].num \in 0..(Million - 1)
        /\ out[n].num = LeadingHexMod(arg)
        /\ out[n] = out[1]
        /\ FloorTimes360(out[n].num) \in 0..359

----------------------------------------------------------------------------
(* Health and the withered flag on their own: what one render of App      *)
(* computes from the state it holds.                                       *)

MaxMissedStreak == 30   \* the largest missedStreak rendered
MaxHealthGrowth == 3    \* the largest growth rendered

InitHealth ==
    /\ Constructed
    /\ arg \in {[ZeroState EXCEPT !.missedStreak = m, !.growth = g] :
                  m \in 0..MaxMissedStreak, g \in 0..MaxHealthGrowth}
    /\ out = <<>>

\* `health = useMemo(() => computeHealth(local))` and
\* `withered = (local.missedStreak || 0) >= 3` of one render
renderHealth ==
    /\ out = <<>>
    /\ out' = <<[health |-> computeHealth(arg), withered |-> withered(arg)]>>
    /\ UNCHANGED <<app, arg>>

SpecHealth == InitHealth /\ [][renderHealth]_vars

\* C24: for every missedStreak from 0 to 30 the health rendered is 1.00 for
\* 0, 0.86 for 1, 0.68 for 2 and 0.42 for 3 or more; the withered flag is
\* true exactly when missedStreak >= 3, so exactly when the health is 0.42.
C24_HealthTable ==
    out # <<>> =>
        /\ out[1].health = CASE arg.missedStreak = 0 -> 100
                              [] arg.missedStreak = 1 -> 86
                              [] arg.missedStreak = 2 -> 68
                              [] OTHER -> 42
        /\ out[1].withered <=> arg.missedStreak >= 3
        /\ out[1].withered <=> out[1].health = 42

\* C24 witness: a state with missedStreak 30 was rendered withered at health
\* 0.42.
C24_Witness ==
    /\ out # <<>>
    /\ arg.missedStreak = 30
    /\ out[1].withered
    /\ out[1].health = 42

----------------------------------------------------------------------------
(* The head of water() on its own: the validation and the cooldown toast.  *)
(* Durations are in milliseconds.                                           *)

MaxSkewHours == 12      \* hours by which lastWateredAt may lie in the future
MaxSinceHours == 30     \* hours since lastWateredAt

\* now - lastWateredAt: every half hour in range, and the milliseconds
\* around 0 and around one hour
ElapsedMs ==
    {k * HalfHour : k \in (0 - 2 * MaxSkewHours)..(2 * MaxSinceHours)}
      \cup {0 - 1, 1, MsPerHour - 1, MsPerHour + 1}

\* the wait with the period of the gate
cooldownHrsOfGate(st, t) ==
    IF MsPerHour - (t - st.lastWateredAt[1]) < 0 THEN 0
    ELSE MsPerHour - (t - st.lastWateredAt[1])

\* Math.max(0, 24 - hoursSince(local.lastWateredAt)), reached only with a
\* truthy lastWateredAt
cooldownHrs(st, t) ==
    IF 24 * MsPerHour - (t - st.lastWateredAt[1]) < 0 THEN 0
    ELSE 24 * MsPerHour - (t - st.lastWateredAt[1])

\* water() down to `await sendGameTx("water")`: the toast it returns with, or
\* the call
waterHead(acct, st, t) ==
    IF acct = <<>> THEN [toast |-> "connect", hrs |-> 0]
    ELSE IF ~planted(st) THEN [toast |-> "plant", hrs |-> 0]
    ELSE IF ~canWater(st, t) THEN [toast |-> "cooldown", hrs |-> cooldownHrs(st, t)]
    ELSE [toast |-> "-", hrs |-> 0]

InitCooldown ==
    /\ Constructed
    /\ arg \in
          {[account |-> acct, t |-> Epoch + MsPerDay,
            st |-> [ZeroState EXCEPT !.plantedAt = plantedAt, !.growth = 1,
                                     !.lastWateredAt = Some(Epoch + MsPerDay - d)]] :
              acct \in {<<>>, WalletAccount},
              plantedAt \in {None, Some(Epoch - MsPerDay)},
              d \in ElapsedMs}
          \cup
          {[account |-> WalletAccount, t |-> Epoch + MsPerDay,
            st |-> [ZeroState EXCEPT !.plantedAt = Some(Epoch), !.growth = 1,
                                     !.lastWateredAt = w]] : w \in {None, Some(0)}}
    /\ out = <<>>

waterCall ==
    /\ out = <<>>
    /\ out' = <<waterHead(arg.account, arg.st, arg.t)>>
    /\ UNCHANGED <<app, arg>>

SpecCooldown == InitCooldown /\ [][waterCall]_vars

\* now - lastWateredAt of the call, for a truthy lastWateredAt
SinceWatered == arg.t - arg.st.lastWateredAt[1]

\* water() returned with the cooldown toast exactly when the account is
\* connected, the seed planted and less than one hour has elapsed since a
\* truthy lastWateredAt, and the wait reported is max(0, 24 h - elapsed)
CooldownAsComputed ==
    /\ out[1].toast = "cooldown" <=>
          /\ arg.account # <<>>
          /\ Truthy(arg.st.plantedAt)
          /\ Truthy(arg.st.lastWateredAt)
          /\ SinceWatered < MsPerHour
    /\ out[1].toast = "cooldown" =>
          /\ out[1].hrs >= 0
          /\ out[1].hrs >= 24 * MsPerHour - SinceWatered
          /\ out[1].hrs \in {0, 24 * MsPerHour - SinceWatered}

\* C25 as stated: the cooldown refusal happens exactly when less than one
\* hour has elapsed since lastWateredAt, and the wait it reports, max(0, 24 -
\* hoursSince(lastWateredAt)) hours, is always more than 23 and at most 24
\* hours.
C25_ReportedWaitWithin24h ==
    out # <<>> =>
        /\ CooldownAsComputed
        /\ out[1].toast = "cooldown" =>
              (out[1].hrs > 23 * MsPerHour /\ out[1].hrs <= 24 * MsPerHour)

\* C25 amended: the cooldown refusal happens exactly when less than one hour
\* has elapsed since lastWateredAt, and the wait it reports, max(0, 24 -
\* hoursSince(lastWateredAt)) hours, is always more than 23 hours; it is at
\* most 24 hours exactly when lastWateredAt is not later than now.
C25_ReportedWait ==
    out # <<>> =>
        /\ CooldownAsComputed
        /\ out[1].toast = "cooldown" =>
              /\ out[1].hrs > 23 * MsPerHour
              /\ out[1].hrs <= 24 * MsPerHour <=> SinceWatered >= 0

\* C25 witness: water() was refused one millisecond before the hour was up
\* and reported a wait of 23 hours and one millisecond.
C25_Witness ==
    /\ out # <<>>
    /\ out[1].toast = "cooldown"
    /\ SinceWatered = MsPerHour - 1
    /\ out[1].hrs = 23 * MsPerHour + 1

----------------------------------------------------------------------------
(* Memory and record *)

\* C26: in every state between the steps of the page (no load effect and no
\* commit half done), while an account is connected its in-memory game state
\* is what its persisted record holds: the record is the saved form of the
\* state, and loading the record gives the state back.
C26_MemoryEqualsRecord ==
    account # <<>> => (stored = saveState(local) /\ loadState(stored) = local)

\* C26 witness: a watering has just committed for the connected account, and
\* memory and record agree on a growth above 1.
C26_Witness ==
    /\ account # <<>>
    /\ ev = Returned("water", TRUE)
    /\ local.growth > 1
    /\ stored = saveState(local)


\* C27: a watering never commits less than one hour after the watering, plant
\* or revive commit whose time the in-memory state holds as lastWateredAt
\* (each of these commits records its time there), so any two committed
\* waterings are at least one hour apart and none follows a plant or revive
\* commit by less than one hour.
C27_WateringsAnHourApart ==
    [][(Commits("water") /\ Truthy(local.lastWateredAt)) =>
          now - local.lastWateredAt[1] >= MsPerHour]_vars


\* C28: at most one run of sendTip is in progress at a time, and while one is
\* (it has left idle and has reached neither done nor idle again) tipState is
\* preparing, confirm or sending, so that no second run can start.
C28_OneTipInProgress ==
    /\ BagCardinality(tips) <= 1
    /\ BagCardinality(tips) = 1 => tipState \in {"preparing", "confirm", "sending"}

====
